---------------------------- MODULE Spec2Model ----------------------------
(***************************************************************************)
(* Doomscroll: the React client (frontend-react/src/App.jsx) talking to    *)
(* the Flask feed API.  The client is modelled from App.jsx; the backend   *)
(* (app.py) is modelled from the specification of the Post and Comment     *)
(* stores.                                                                 *)
(*                                                                         *)
(* JavaScript values appear as follows.  A post id is an atom, written as  *)
(* the string of its decimal text ("1", "2", ...).  A Set is the sequence  *)
(* of its elements in insertion order, without repetition.  A stored text  *)
(* is a sequence of tokens: "[", "]", ",", "{", "}", the quote, "null",    *)
(* atoms and the letters of string literals.                               *)
(***************************************************************************)
EXTENDS Integers, Sequences, FiniteSets, Bags, TLC

(* ------------------------------ bounds -------------------------------- *)

\* Requests the client issues over a run, the initial GET /posts of each
\* session not counted.
MaxReqs == 3

\* Fetches in flight at a time.
MaxInFlight == 2

\* Posts the backend holds when the run starts.
InitPosts == 1

(* ------------------------------ helpers ------------------------------- *)

Range(s) == {s[i] : i \in 1..Len(s)}

Last(s) == s[Len(s)]

RECURSIVE Reverse(_)
Reverse(s) == IF s = <<>> THEN <<>> ELSE Append(Reverse(Tail(s)), Head(s))

\* JSON text of a number n
NumText(n) == ToString(n)

QUOTE == "\""

\* The letters that occur inside the string literals of the stored texts.
Letters == {"a", "b"}

\* The tokens that are JSON numbers: post ids and one number that is no id.
Atoms == {NumText(n) : n \in 1..(InitPosts + MaxReqs + 1)} \cup {"7"}

(* ------------------- JSON.parse / JSON.stringify ----------------------- *)

\* A JavaScript value: t is its type, v its content as a sequence
\* (the elements of an array, the letters of a string, the text of a number).
JsArray(v) == [t |-> "array", v |-> v]
JsString(v) == [t |-> "string", v |-> v]
JsNumber(a) == [t |-> "number", v |-> <<a>>]
JsNull == [t |-> "null", v |-> <<>>]
JsObject == [t |-> "object", v |-> <<>>]

\* The outcome of an evaluation that may throw.
Returned(val) == [thrown |-> FALSE, val |-> val]
Thrown == [thrown |-> TRUE, val |-> JsNull]

\* The elements of the text between "[" and "]": atoms and one-letter
\* string literals separated by commas; Thrown when it is no such list.
RECURSIVE ParseElements(_)
ParseElements(toks) ==
    IF toks = <<>> THEN Thrown
    ELSE IF Head(toks) \in Atoms
    THEN IF Len(toks) = 1 THEN Returned(<<Head(toks)>>)
         ELSE IF toks[2] # "," THEN Thrown
         ELSE LET rest == ParseElements(SubSeq(toks, 3, Len(toks)))
              IN  IF rest.thrown THEN Thrown
                  ELSE Returned(<<Head(toks)>> \o rest.val)
    ELSE IF Len(toks) >= 3 /\ toks[1] = QUOTE /\ toks[2] \in Letters /\ toks[3] = QUOTE
    THEN IF Len(toks) = 3 THEN Returned(<<toks[2]>>)
         ELSE IF toks[4] # "," THEN Thrown
         ELSE LET rest == ParseElements(SubSeq(toks, 5, Len(toks)))
              IN  IF rest.thrown THEN Thrown
                  ELSE Returned(<<toks[2]>> \o rest.val)
    ELSE Thrown

\* JSON.parse(text): the value, or Thrown for a SyntaxError.
JsonParse(toks) ==
    IF toks = <<>> THEN Thrown
    ELSE IF toks = <<"null">> THEN Returned(JsNull)
    ELSE IF toks = <<"{", "}">> THEN Returned(JsObject)
    ELSE IF Len(toks) = 1 /\ toks[1] \in Atoms THEN Returned(JsNumber(toks[1]))
    ELSE IF Len(toks) >= 2 /\ toks[1] = QUOTE /\ Last(toks) = QUOTE
            /\ \A i \in 2..(Len(toks) - 1) : toks[i] \in Letters
    THEN Returned(JsString(SubSeq(toks, 2, Len(toks) - 1)))
    ELSE IF toks = <<"[", "]">> THEN Returned(JsArray(<<>>))
    ELSE IF Len(toks) >= 3 /\ toks[1] = "[" /\ Last(toks) = "]"
    THEN LET els == ParseElements(SubSeq(toks, 2, Len(toks) - 1))
         IN  IF els.thrown THEN Thrown ELSE Returned(JsArray(els.val))
    ELSE Thrown

\* JSON.stringify of one array element: a number as its text, a string
\* between quotes.
ElementText(e) == IF e \in Letters THEN <<QUOTE, e, QUOTE>> ELSE <<e>>

RECURSIVE JoinElements(_)
JoinElements(arr) ==
    IF arr = <<>> THEN <<>>
    ELSE IF Len(arr) = 1 THEN ElementText(arr[1])
    ELSE ElementText(arr[1]) \o <<",">> \o JoinElements(Tail(arr))

\* JSON.stringify(array)
JsonStringify(arr) == <<"[">> \o JoinElements(arr) \o <<"]">>

(* ------------------------------ Set ----------------------------------- *)

\* Set.prototype.add: appended unless present.
SetAdd(s, e) == IF e \in Range(s) THEN s ELSE Append(s, e)

\* Set.prototype.delete
SetDelete(s, e) == SelectSeq(s, LAMBDA x : x # e)

\* Set.prototype.has
SetHas(s, e) == e \in Range(s)

RECURSIVE SetFromSeq(_)
SetFromSeq(arr) ==
    IF arr = <<>> THEN <<>>
    ELSE SetAdd(SetFromSeq(SubSeq(arr, 1, Len(arr) - 1)), Last(arr))

\* new Set(value): the elements of an array, the letters of a string, empty
\* for null; a number or a plain object is not iterable (TypeError).
NewSet(val) ==
    IF val.t \in {"array", "string"} THEN Returned(SetFromSeq(val.v))
    ELSE IF val.t = "null" THEN Returned(<<>>)
    ELSE Thrown

(* -------------------------- localStorage ------------------------------ *)

\* The 'likedIds' key: absent, or holding a text.
NoItem == [has |-> FALSE, text |-> <<>>]
Item(text) == [has |-> TRUE, text |-> text]

\* localStorage.getItem('likedIds') || '[]'
GetItemOrDefault(st) ==
    IF ~st.has \/ st.text = <<>> THEN <<"[", "]">> ELSE st.text

\* The initial likedIds state.
LoadLikedIds(st) ==
    LET parsed == JsonParse(GetItemOrDefault(st))
    IN  IF parsed.thrown THEN <<>>
        ELSE LET made == NewSet(parsed.val)
             IN  IF made.thrown THEN <<>> ELSE made.val

\* The persistence effect with the Set itself given to JSON.stringify, which
\* writes it as an empty object.
SaveLikedIdsAsObject(st, liked, full) ==
    IF full THEN st ELSE Item(<<"{", "}">>)

\* The persistence effect: setItem throws when the quota is exhausted and the
\* error is ignored.
SaveLikedIds(st, liked, full) ==
    IF full THEN st ELSE Item(JsonStringify(liked))


(* ------------------------------ state --------------------------------- *)

VARIABLES
    phase,        \* "rendered": first render done, effects not yet run; "mounted"
    storage,      \* localStorage's 'likedIds' item
    storageFull,  \* whether localStorage.setItem throws (quota exhausted)
    likedIds,     \* App state: the Set of liked post ids
    posts,        \* App state: the feed, a sequence of posts
    loading,      \* App state
    showComments, \* PostCard state, by post id
    comments,     \* PostCard state, by post id: the local comment list
    net,          \* the fetches in flight, a bag of messages
    nreq,         \* requests issued so far (the initial GET /posts not counted)
    last,         \* the step last taken and the notice (alert) it raised
    stats,        \* per post: the like requests issued and succeeded so far
    sPosts,       \* backend: the posts in insertion order
    sComments,    \* backend: the comments of each post in creation order
    media         \* a post card's media: its url, its type and what is rendered

appVars == <<phase, storage, storageFull, likedIds, posts, loading,
             showComments, comments, net, nreq, last, stats, sPosts, sComments>>

vars == <<appVars, media>>

clientVars == <<likedIds, posts, loading, showComments, comments>>
serverVars == <<sPosts, sComments>>

\* Every post id the backend can come to assign.
AllIds == {NumText(n) : n \in 1..(InitPosts + MaxReqs)}

(* ------------------------------ posts --------------------------------- *)

Post(id, createdAt, likeCount, commentCount) ==
    [id |-> id, createdAt |-> createdAt, likeCount |-> likeCount,
     commentCount |-> commentCount]

ReplacePostEverywhere(prev, postId, updated) == [i \in 1..Len(prev) |-> updated]

\* prev.map(p => (p.id === postId ? updated : p))
ReplacePost(prev, postId, updated) ==
    [i \in 1..Len(prev) |-> IF prev[i].id = postId THEN updated ELSE prev[i]]

\* onCommentAdded without the test of the id: every post is bumped.
onCommentAddedEveryPost(prev, postId) ==
    [i \in 1..Len(prev) |->
        [prev[i] EXCEPT !.commentCount = prev[i].commentCount + 1]]

\* prev.map(p => p.id === postId ? {...p, commentCount: (p.commentCount || 0) + 1} : p)
onCommentAdded(prev, postId) ==
    [i \in 1..Len(prev) |->
        IF prev[i].id = postId
        THEN [prev[i] EXCEPT !.commentCount = prev[i].commentCount + 1]
        ELSE prev[i]]

\* A comment, as far as the client looks at it.
Comment(id) == [id |-> id]

PostIds(ps) == {ps[i].id : i \in 1..Len(ps)}

\* The post with this id in a list that holds one.
PostOf(ps, id) == ps[CHOOSE i \in 1..Len(ps) : ps[i].id = id]

\* The count the comment button shows.
visibleCommentCount(p) ==
    IF showComments[p] THEN Len(comments[p]) ELSE PostOf(posts, p).commentCount

(* ----------------------------- messages ------------------------------- *)

\* A fetch in flight.  flag is what the handler's closure captured when it
\* issued the request: alreadyLiked for a toggle, showComments for the
\* comment list.  stage "req": on its way to the backend; "resp": settled,
\* its continuation not yet run.  status 0: the fetch rejected.
Request(kind, post, flag) ==
    [kind |-> kind, post |-> post, flag |-> flag, stage |-> "req",
     status |-> 0, error |-> "", shape |-> "array", data |-> <<>>]

Response(m, status, error, shape, data) ==
    [m EXCEPT !.stage = "resp", !.status = status, !.error = error,
              !.shape = shape, !.data = data]

\* res.ok
Ok(m) == m.status \in 200..299

Pending(kind) == {m \in BagToSet(net) : m.kind = kind /\ m.stage = "req"}
Settled(kind) == {m \in BagToSet(net) : m.kind = kind /\ m.stage = "resp"}

Send(m) == net (+) SetToBag({m})
Settle(m, response) == (net (-) SetToBag({m})) (+) SetToBag({response})
Consume(m) == net (-) SetToBag({m})

(* ------------------------------ notices ------------------------------- *)

NoNotice == "(none)"
FetchRejected == "Failed to fetch"
BadBody == "Unexpected token"
CommentsNotice == "Failed to load comments"

\* `HTTP ${res.status}`
HttpMessage(status) == "HTTP " \o ToString(status)

\* The message with the server's error envelope ignored.
FailureMessageStatusOnly(m) ==
    IF m.status = 0 THEN FetchRejected
    ELSE IF ~Ok(m) THEN HttpMessage(m.status)
    ELSE BadBody

\* The message of the error a mutating handler catches: the fetch's own
\* rejection, errBody.error || `HTTP ${res.status}` for a response that is
\* not ok, the parse error of a 2xx body that is no JSON.
FailureMessage(m) ==
    IF m.status = 0 THEN FetchRejected
    ELSE IF ~Ok(m) THEN (IF m.error # "" THEN m.error ELSE HttpMessage(m.status))
    ELSE BadBody

Failed(m) == ~Ok(m) \/ m.shape = "text"

\* What the continuation of a handler did: the handler, its post, whether
\* its request succeeded and the notice it raised.  Quiet after any other step.
Step(op, post, ok, notice) == [op |-> op, post |-> post, ok |-> ok, notice |-> notice]
Quiet == Step("", "", TRUE, NoNotice)

(* ------------------------------ backend ------------------------------- *)

\* listPosts(): newest first.
listPosts == Reverse(sPosts)

\* Whether the store holds the post.
Exists(id) == id \in PostIds(sPosts)

\* The id a new post gets, and its creation time.
FreshPostId == NumText(Len(sPosts) + 1)
Now == Len(sPosts) + 1

\* The id a new comment gets.
RECURSIVE CountComments(_)
CountComments(ids) ==
    IF ids = {} THEN 0
    ELSE LET id == CHOOSE x \in ids : TRUE
         IN  Len(sComments[id]) + CountComments(ids \ {id})
FreshCommentId == CountComments(AllIds) + 1

NotFound == "post not found"
Conflict == "like count already zero"

\* GET /posts: the array, or the same array as {posts: [...]}.
ServeListPosts(r) ==
    /\ r \in Pending("list")
    /\ \E shape \in {"array", "envelope"} :
          net' = Settle(r, Response(r, 200, "", shape, listPosts))
    /\ last' = Quiet
    /\ UNCHANGED <<phase, storage, storageFull, clientVars, nreq, stats,
                   serverVars, media>>

\* POST /posts: the text was checked non-empty by the form.
ServeCreatePost(r) ==
    /\ r \in Pending("create")
    /\ LET new == Post(FreshPostId, Now, 0, 0)
       IN  /\ sPosts' = Append(sPosts, new)
           /\ net' = Settle(r, Response(r, 201, "", "array", <<new>>))
    /\ last' = Quiet
    /\ UNCHANGED <<phase, storage, storageFull, clientVars, nreq, stats,
                   sComments, media>>

\* like(postId): increments likeCount and returns the post.
LikeLostUpdate(ps, id) ==
    IF \E m \in BagToSet(net) :
          m.kind = "like" /\ m.post = id /\ m.stage = "resp" /\ Ok(m) /\ ~m.flag
    THEN ps
    ELSE ReplacePost(ps, id, [PostOf(ps, id) EXCEPT !.likeCount = @ + 1])

Like(ps, id) == ReplacePost(ps, id, [PostOf(ps, id) EXCEPT !.likeCount = @ + 1])

\* unlike(postId): decrements likeCount; only called above the floor.
Unlike(ps, id) == ReplacePost(ps, id, [PostOf(ps, id) EXCEPT !.likeCount = @ - 1])

\* POST /posts/:id/like (flag FALSE) and DELETE /posts/:id/like (flag TRUE).
ServeLike(r) ==
    /\ r \in Pending("like")
    /\ LET m == r
           id == m.post
       IN  IF ~Exists(id)
           THEN /\ net' = Settle(r, Response(m, 404, NotFound, "array", <<>>))
                /\ UNCHANGED sPosts
           ELSE IF m.flag /\ PostOf(sPosts, id).likeCount = 0
           THEN /\ net' = Settle(r, Response(m, 409, Conflict, "array", <<>>))
                /\ UNCHANGED sPosts
           ELSE /\ sPosts' = (IF m.flag THEN Unlike(sPosts, id) ELSE Like(sPosts, id))
                /\ net' = Settle(r, Response(m, 200, "", "array", <<PostOf(sPosts', id)>>))
    /\ last' = Quiet
    /\ UNCHANGED <<phase, storage, storageFull, clientVars, nreq, stats,
                   sComments, media>>

\* GET /posts/:id/comments
ServeListComments(r) ==
    /\ r \in Pending("comments")
    /\ LET m == r
       IN  IF ~Exists(m.post)
           THEN net' = Settle(r, Response(m, 404, NotFound, "array", <<>>))
           ELSE net' = Settle(r, Response(m, 200, "", "array", sComments[m.post]))
    /\ last' = Quiet
    /\ UNCHANGED <<phase, storage, storageFull, clientVars, nreq, stats,
                   serverVars, media>>

ServeAddCommentWithoutCount(r) ==
    /\ r \in Pending("comment")
    /\ LET m == r
           c == FreshCommentId
       IN  IF ~Exists(m.post)
           THEN /\ net' = Settle(r, Response(m, 404, NotFound, "array", <<>>))
                /\ UNCHANGED serverVars
           ELSE /\ sComments' = [sComments EXCEPT ![m.post] = Append(@, Comment(c))]
                /\ sPosts' = sPosts
                /\ net' = Settle(r, Response(m, 201, "", "array", <<Comment(c)>>))
    /\ last' = Quiet
    /\ UNCHANGED <<phase, storage, storageFull, clientVars, nreq, stats, media>>

\* addComment(postId, ...): the comment and the counter in one step.
ServeAddComment(r) ==
    /\ r \in Pending("comment")
    /\ LET m == r
           c == FreshCommentId
       IN  IF ~Exists(m.post)
           THEN /\ net' = Settle(r, Response(m, 404, NotFound, "array", <<>>))
                /\ UNCHANGED serverVars
           ELSE /\ sComments' = [sComments EXCEPT ![m.post] = Append(@, Comment(c))]
                /\ sPosts' = ReplacePost(sPosts, m.post,
                                [PostOf(sPosts, m.post) EXCEPT !.commentCount = @ + 1])
                /\ net' = Settle(r, Response(m, 201, "", "array", <<Comment(c)>>))
    /\ last' = Quiet
    /\ UNCHANGED <<phase, storage, storageFull, clientVars, nreq, stats, media>>

\* The backend fails a request without applying it: a 500 whose body is no
\* error envelope.
ServeError(r) ==
    /\ r \in BagToSet(net) /\ r.stage = "req"
    /\ net' = Settle(r, Response(r, 500, "", "array", <<>>))
    /\ last' = Quiet
    /\ UNCHANGED <<phase, storage, storageFull, clientVars, nreq, stats,
                   serverVars, media>>

\* The bodies of a 200 that are neither an array nor {posts: [...]}: a text
\* that is no JSON, null, an object without posts, and an object whose posts
\* is a non-empty string.
MalformedShapes == {"text", "null", "object", "scalarPosts"}

\* A 200 to GET /posts whose body is not a list of posts.
ServeMalformed(r) ==
    /\ r \in Pending("list")
    /\ \E shape \in MalformedShapes :
          net' = Settle(r, Response(r, 200, "", shape, <<>>))
    /\ last' = Quiet
    /\ UNCHANGED <<phase, storage, storageFull, clientVars, nreq, stats,
                   serverVars, media>>

\* The request never reaches the backend: fetch rejects.
Unreachable(r) ==
    /\ r \in BagToSet(net) /\ r.stage = "req"
    /\ net' = Settle(r, Response(r, 0, "", "array", <<>>))
    /\ last' = Quiet
    /\ UNCHANGED <<phase, storage, storageFull, clientVars, nreq, stats,
                   serverVars, media>>

(* ------------------------------- client ------------------------------- *)

NoFetch == EmptyBag

\* The posts state after setPosts was given a value that is no array:
\* posts.map is not a function and the page renders nothing.
NonListFeed == <<[id |-> "", notAnArray |-> TRUE]>>

\* The bounds leave room for one more request.
CanFetch == nreq < MaxReqs /\ BagCardinality(net) < MaxInFlight

\* The feed is on screen: the effects have run and the loading card is gone.
FeedShown == phase = "mounted" /\ ~loading /\ posts # NonListFeed

\* The effects of the first render: GET /posts is issued and likedIds is
\* written to localStorage.
Mount ==
    /\ phase = "rendered"
    /\ phase' = "mounted"
    /\ net' = Send(Request("list", "", FALSE))
    /\ storage' = SaveLikedIds(storage, likedIds, storageFull)
    /\ last' = Quiet
    /\ UNCHANGED <<storageFull, clientVars, nreq, stats, serverVars, media>>

\* const postsArray = Array.isArray(data) ? data : (data.posts || [])
\* res.json() rejects for a text that is no JSON and data.posts throws for
\* null (both caught: setPosts([])); an object without posts gives []; a
\* posts that is truthy is taken as it is.
PostsArray(m) ==
    IF m.shape \in {"array", "envelope"} THEN m.data
    ELSE IF m.shape = "scalarPosts" THEN NonListFeed
    ELSE <<>>

\* The continuation of the load-posts effect.
loadPostsSettled(r) ==
    /\ phase = "mounted"
    /\ r \in Settled("list")
    /\ posts' = (IF Ok(r) THEN PostsArray(r) ELSE <<>>)
    /\ loading' = FALSE
    /\ net' = Consume(r)
    /\ last' = Step("loadPosts", "", Ok(r), NoNotice)
    /\ UNCHANGED <<phase, storage, storageFull, likedIds, showComments,
                   comments, nreq, stats, serverVars, media>>

\* createPost up to its await: the form submitted with a non-empty text.
createPost ==
    /\ FeedShown
    /\ CanFetch
    /\ nreq' = nreq + 1
    /\ net' = Send(Request("create", "", FALSE))
    /\ last' = Quiet
    /\ UNCHANGED <<phase, storage, storageFull, clientVars, stats, serverVars, media>>

\* createPost after its await.
createPostSettled(r) ==
    /\ phase = "mounted"
    /\ r \in Settled("create")
    /\ LET m == r
       IN  IF Failed(m)
           THEN /\ last' = Step("createPost", "", FALSE, FailureMessage(m))
                /\ UNCHANGED posts
           ELSE /\ posts' = <<m.data[1]>> \o posts
                /\ last' = Step("createPost", "", TRUE, NoNotice)
    /\ net' = Consume(r)
    /\ UNCHANGED <<phase, storage, storageFull, likedIds, loading,
                   showComments, comments, nreq, stats, serverVars, media>>

\* toggleLike as an optimistic update: likedIds is changed when the request
\* is sent.
toggleLikeOptimistic(postId) ==
    /\ FeedShown
    /\ postId \in PostIds(posts)
    /\ CanFetch
    /\ nreq' = nreq + 1
    /\ LET alreadyLiked == SetHas(likedIds, postId)
       IN  /\ net' = Send(Request("like", postId, alreadyLiked))
           /\ likedIds' = (IF alreadyLiked THEN SetDelete(likedIds, postId)
                                           ELSE SetAdd(likedIds, postId))
           /\ stats' = IF alreadyLiked
                       THEN [stats EXCEPT !.deleteIssued[postId] = @ + 1]
                       ELSE stats
    /\ storage' = SaveLikedIds(storage, likedIds', storageFull)
    /\ last' = Quiet
    /\ UNCHANGED <<phase, storageFull, posts, loading, showComments, comments,
                   serverVars, media>>

\* toggleLike up to its await: alreadyLiked is read and the request sent.
toggleLike(postId) ==
    /\ FeedShown
    /\ postId \in PostIds(posts)
    /\ CanFetch
    /\ nreq' = nreq + 1
    /\ LET alreadyLiked == SetHas(likedIds, postId)
       IN  /\ net' = Send(Request("like", postId, alreadyLiked))
           /\ stats' = IF alreadyLiked
                       THEN [stats EXCEPT !.deleteIssued[postId] = @ + 1]
                       ELSE stats
    /\ last' = Quiet
    /\ UNCHANGED <<phase, storage, storageFull, clientVars, serverVars, media>>

\* The Set the updater of setLikedIds returns.
NextLikedIds(prev, postId, alreadyLiked) ==
    IF alreadyLiked THEN SetDelete(prev, postId) ELSE SetAdd(prev, postId)

toggleLikeSettledUnlikesOnFailure(r) ==
    /\ phase = "mounted"
    /\ r \in Settled("like")
    /\ LET m == r
           postId == m.post
           alreadyLiked == m.flag
       IN  IF Failed(m)
           THEN /\ last' = Step("toggleLike", postId, FALSE, FailureMessage(m))
                /\ likedIds' = IF alreadyLiked THEN SetDelete(likedIds, postId)
                                ELSE likedIds
                /\ storage' = SaveLikedIds(storage, likedIds', storageFull)
                /\ UNCHANGED <<posts, stats>>
           ELSE /\ posts' = ReplacePost(posts, postId, m.data[1])
                /\ likedIds' = NextLikedIds(likedIds, postId, alreadyLiked)
                /\ storage' = SaveLikedIds(storage, likedIds', storageFull)
                /\ stats' = IF alreadyLiked
                            THEN [stats EXCEPT !.deleteOk[postId] = @ + 1]
                            ELSE [stats EXCEPT !.postOk[postId] = @ + 1]
                /\ last' = Step("toggleLike", postId, TRUE, NoNotice)
    /\ net' = Consume(r)
    /\ UNCHANGED <<phase, storageFull, loading, showComments, comments,
                   nreq, serverVars, media>>

\* toggleLike after its await, and the persistence effect that the new
\* likedIds triggers.
toggleLikeSettled(r) ==
    /\ phase = "mounted"
    /\ r \in Settled("like")
    /\ LET m == r
           postId == m.post
           alreadyLiked == m.flag
       IN  IF Failed(m)
           THEN /\ last' = Step("toggleLike", postId, FALSE, FailureMessage(m))
                /\ UNCHANGED <<posts, likedIds, storage, stats>>
           ELSE /\ posts' = ReplacePost(posts, postId, m.data[1])
                /\ likedIds' = NextLikedIds(likedIds, postId, alreadyLiked)
                /\ storage' = SaveLikedIds(storage, likedIds', storageFull)
                /\ stats' = IF alreadyLiked
                            THEN [stats EXCEPT !.deleteOk[postId] = @ + 1]
                            ELSE [stats EXCEPT !.postOk[postId] = @ + 1]
                /\ last' = Step("toggleLike", postId, TRUE, NoNotice)
    /\ net' = Consume(r)
    /\ UNCHANGED <<phase, storageFull, loading, showComments, comments,
                   nreq, serverVars, media>>

\* toggleComments on an open panel: the panel closes.
hideComments(postId) ==
    /\ FeedShown
    /\ postId \in PostIds(posts)
    /\ showComments[postId]
    /\ showComments' = [showComments EXCEPT ![postId] = ~showComments[postId]]
    /\ last' = Quiet
    /\ UNCHANGED <<phase, storage, storageFull, likedIds, posts, loading,
                   comments, net, nreq, stats, serverVars, media>>

\* toggleComments on a closed panel, up to its await.
toggleComments(postId) ==
    /\ FeedShown
    /\ postId \in PostIds(posts)
    /\ ~showComments[postId]
    /\ CanFetch
    /\ nreq' = nreq + 1
    /\ net' = Send(Request("comments", postId, showComments[postId]))
    /\ last' = Quiet
    /\ UNCHANGED <<phase, storage, storageFull, clientVars, stats, serverVars, media>>

\* toggleComments after its await: the list is stored when the fetch
\* succeeded, and the panel is set to the negation of the showComments the
\* handler read.
toggleCommentsSettled(r) ==
    /\ phase = "mounted"
    /\ r \in Settled("comments")
    /\ LET m == r
       IN  /\ IF Failed(m)
              THEN /\ last' = Step("toggleComments", m.post, FALSE, CommentsNotice)
                   /\ UNCHANGED comments
              ELSE /\ comments' = [comments EXCEPT ![m.post] = m.data]
                   /\ last' = Step("toggleComments", m.post, TRUE, NoNotice)
           /\ showComments' = [showComments EXCEPT ![m.post] = ~m.flag]
    /\ net' = Consume(r)
    /\ UNCHANGED <<phase, storage, storageFull, likedIds, posts, loading,
                   nreq, stats, serverVars, media>>

\* addComment up to its await: the comment form, shown in an open panel,
\* submitted with a non-empty content.
addComment(postId) ==
    /\ FeedShown
    /\ postId \in PostIds(posts)
    /\ showComments[postId]
    /\ CanFetch
    /\ nreq' = nreq + 1
    /\ net' = Send(Request("comment", postId, FALSE))
    /\ last' = Quiet
    /\ UNCHANGED <<phase, storage, storageFull, clientVars, stats, serverVars, media>>

\* addComment after its await.
addCommentSettled(r) ==
    /\ phase = "mounted"
    /\ r \in Settled("comment")
    /\ LET m == r
       IN  IF Failed(m)
           THEN /\ last' = Step("addComment", m.post, FALSE, FailureMessage(m))
                /\ UNCHANGED <<comments, posts>>
           ELSE /\ comments' = [comments EXCEPT ![m.post] = Append(@, m.data[1])]
                /\ posts' = onCommentAdded(posts, m.post)
                /\ last' = Step("addComment", m.post, TRUE, NoNotice)
    /\ net' = Consume(r)
    /\ UNCHANGED <<phase, storage, storageFull, likedIds, loading,
                   showComments, nreq, stats, serverVars, media>>

\* The page is loaded again while no fetch is in flight: the components are
\* constructed anew, likedIds from localStorage.
Reload ==
    /\ phase = "mounted"
    /\ ~loading
    /\ net = NoFetch
    /\ phase' = "rendered"
    /\ likedIds' = LoadLikedIds(storage)
    /\ posts' = <<>>
    /\ loading' = TRUE
    /\ showComments' = [id \in AllIds |-> FALSE]
    /\ comments' = [id \in AllIds |-> <<>>]
    /\ net' = NoFetch
    /\ last' = Quiet
    /\ UNCHANGED <<storage, storageFull, nreq, stats, serverVars, media>>

(* --------------------------- specification ---------------------------- *)

\* What localStorage may hold when the first session starts.
StoredItems ==
    { NoItem,
      Item(<<>>),
      Item(<<"[", "]">>),
      Item(<<"[", "2", ",", "1", "]">>),
      Item(<<"[", "1">>),
      Item(<<QUOTE, "a", "b", QUOTE>>),
      Item(<<"7">>),
      Item(<<"{", "}">>),
      Item(<<"null">>) }

\* What it may hold when the quota is exhausted from the start.
FullItems == {Item(<<QUOTE, "a", "b", QUOTE>>)}

InitialPost(n) == Post(NumText(n), n, IF n = 1 THEN 1 ELSE 0, IF n = 1 THEN 1 ELSE 0)

(* ------------------------------- media ------------------------------- *)

\* A URL is the sequence of its characters.
UpperCase == <<"A", "B", "C", "D", "E", "F", "G", "H", "I", "J", "K", "L", "M",
               "N", "O", "P", "Q", "R", "S", "T", "U", "V", "W", "X", "Y", "Z">>
LowerCase == <<"a", "b", "c", "d", "e", "f", "g", "h", "i", "j", "k", "l", "m",
               "n", "o", "p", "q", "r", "s", "t", "u", "v", "w", "x", "y", "z">>

\* The i flag of the extension patterns: letters compare in lower case.
toLowerCase(url) ==
    [i \in 1..Len(url) |->
        IF \E k \in 1..Len(UpperCase) : UpperCase[k] = url[i]
        THEN LowerCase[CHOOSE k \in 1..Len(UpperCase) : UpperCase[k] = url[i]]
        ELSE url[i]]

\* text occurs in url from position i on.
MatchesAt(url, i, text) ==
    /\ i + Len(text) - 1 <= Len(url)
    /\ SubSeq(url, i, i + Len(text) - 1) = text

\* String.prototype.includes.
includes(url, text) == \E i \in 1..Len(url) : MatchesAt(url, i, text)

YoutubeCom == <<"y", "o", "u", "t", "u", "b", "e", ".", "c", "o", "m">>
YoutuBe == <<"y", "o", "u", "t", "u", ".", "b", "e">>
WatchV == <<"/", "w", "a", "t", "c", "h", "?", "v", "=">>
Slash == <<"/">>
Dot == <<".">>
VideoExtensions == {<<"m", "p", "4">>, <<"w", "e", "b", "m">>, <<"m", "o", "v">>}
ImageExtensions == {<<"j", "p", "g">>, <<"j", "p", "e", "g">>, <<"p", "n", "g">>, <<"g", "i", "f">>, <<"w", "e", "b", "p">>}

\* /\.(e1|e2|...)$/i.test(url)
TestExtension(url, extensions) ==
    \E e \in extensions :
        /\ Len(url) >= Len(Dot \o e)
        /\ MatchesAt(toLowerCase(url), Len(url) - Len(e), Dot \o e)

inferTypeFromUrl(url) ==
    IF url = <<>> THEN "none"
    ELSE IF includes(url, YoutubeCom) \/ includes(url, YoutuBe) THEN "youtube"
    ELSE IF TestExtension(url, VideoExtensions) THEN "video"
    ELSE IF TestExtension(url, ImageExtensions) THEN "image"
    ELSE "video"

\* [^&\n?#]
Delimiters == {"&", "\n", "?", "#"}

\* The position after youtube.com/watch?v= or youtu.be/ when one of them
\* occurs at position i, and 0 when neither does.
IdFrom(url, i) ==
    IF MatchesAt(url, i, YoutubeCom \o WatchV) THEN i + Len(YoutubeCom \o WatchV)
    ELSE IF MatchesAt(url, i, YoutuBe \o Slash) THEN i + Len(YoutuBe \o Slash)
    ELSE 0

\* The positions where the whole pattern matches: the capture takes at least
\* one character.
IdMatches(url) ==
    {i \in 1..Len(url) :
        /\ IdFrom(url, i) # 0
        /\ IdFrom(url, i) <= Len(url)
        /\ url[IdFrom(url, i)] \notin Delimiters}

\* null
NoId == <<>>

\* The capture of the leftmost match, taken up to the next delimiter or the
\* end of the URL.
getYouTubeId(url) ==
    IF IdMatches(url) = {} THEN NoId
    ELSE LET i == CHOOSE k \in IdMatches(url) : \A j \in IdMatches(url) : k <= j
             from == IdFrom(url, i)
             to == CHOOSE k \in from..Len(url) :
                      /\ \A j \in from..k : url[j] \notin Delimiters
                      /\ k = Len(url) \/ url[k + 1] \in Delimiters
         IN  SubSeq(url, from, to)

\* What renderMedia returns: an element and the address it shows.
Element(tag, src) == [tag |-> tag, src |-> src]
Nothing == Element("null", <<>>)
NotRendered == Element("(not rendered)", <<>>)
Embed == <<"h", "t", "t", "p", "s", ":", "/", "/", "w", "w", "w", ".", "y", "o", "u", "t", "u", "b", "e", ".", "c", "o", "m", "/", "e", "m", "b", "e", "d", "/">>

\* media.type when the post carries none.
NoType == ""

renderMedia(url, mediaType) ==
    IF url = <<>> THEN Nothing
    ELSE LET type == IF mediaType # NoType THEN mediaType ELSE inferTypeFromUrl(url)
         IN  IF type = "youtube" \/ includes(url, YoutubeCom) \/ includes(url, YoutuBe)
             THEN IF getYouTubeId(url) # NoId
                  THEN Element("iframe", Embed \o getYouTubeId(url))
                  ELSE Nothing
             ELSE IF type = "video" \/ TestExtension(url, VideoExtensions)
             THEN Element("video", url)
             ELSE IF type = "image" \/ TestExtension(url, ImageExtensions)
             THEN Element("img", url)
             ELSE Element("a", url)

\* The media a post card is given: a URL and a type.
Media(url, type) == [url |-> url, type |-> type, element |-> NotRendered]
NoMedia == Media(<<>>, NoType)

\* The post card renders its media.
Render ==
    /\ media.element = NotRendered
    /\ media' = [media EXCEPT !.element = renderMedia(media.url, media.type)]
    /\ UNCHANGED appVars

AppInit ==
    /\ phase = "rendered"
    /\ storage \in StoredItems
    /\ storageFull \in BOOLEAN
    /\ storageFull => storage \in FullItems
    /\ likedIds = LoadLikedIds(storage)
    /\ posts = <<>>
    /\ loading = TRUE
    /\ showComments = [id \in AllIds |-> FALSE]
    /\ comments = [id \in AllIds |-> <<>>]
    /\ net = NoFetch
    /\ nreq = 0
    /\ last = Quiet
    /\ stats = [fromEmpty |-> likedIds = <<>>,
                deleteIssued |-> [id \in AllIds |-> 0],
                postOk |-> [id \in AllIds |-> 0],
                deleteOk |-> [id \in AllIds |-> 0]]
    /\ sPosts = [n \in 1..InitPosts |-> InitialPost(n)]
    /\ sComments = [id \in AllIds |-> IF id = "1" THEN <<Comment(1)>> ELSE <<>>]

Init == AppInit /\ media = NoMedia

Next ==
    \/ Mount
    \/ Reload
    \/ createPost
    \/ \E p \in AllIds : toggleLike(p)
    \/ \E p \in AllIds : toggleComments(p)
    \/ \E p \in AllIds : hideComments(p)
    \/ \E p \in AllIds : addComment(p)
    \/ \E r \in BagToSet(net) : loadPostsSettled(r)
    \/ \E r \in BagToSet(net) : createPostSettled(r)
    \/ \E r \in BagToSet(net) : toggleLikeSettled(r)
    \/ \E r \in BagToSet(net) : toggleCommentsSettled(r)
    \/ \E r \in BagToSet(net) : addCommentSettled(r)
    \/ \E r \in BagToSet(net) : ServeListPosts(r)
    \/ \E r \in BagToSet(net) : ServeCreatePost(r)
    \/ \E r \in BagToSet(net) : ServeLike(r)
    \/ \E r \in BagToSet(net) : ServeListComments(r)
    \/ \E r \in BagToSet(net) : ServeAddComment(r)
    \/ \E r \in BagToSet(net) : ServeError(r)
    \/ \E r \in BagToSet(net) : ServeMalformed(r)
    \/ \E r \in BagToSet(net) : Unreachable(r)

Spec == Init /\ [][Next]_vars

\* The longest URL tried, in pieces.
MaxUrlLen == 3

\* The pieces the URLs tried are put together from.
UrlPieces ==
    {YoutubeCom, YoutuBe, WatchV, Slash, <<"x">>, <<"&">>, <<"e", "x", "a", "m", "p", "l", "e", ".", "c", "o", "m">>,
     Dot \o <<"m", "p", "4">>, Dot \o <<"M", "O", "V">>, Dot \o <<"p", "n", "g">>, Dot \o <<"J", "P", "E", "G">>}

RECURSIVE Flatten(_)
Flatten(pieces) ==
    IF pieces = <<>> THEN <<>> ELSE Head(pieces) \o Flatten(Tail(pieces))

Urls == {Flatten(w) : w \in UNION {[1..n -> UrlPieces] : n \in 0..MaxUrlLen}}

\* The types a post can carry: none, and the two createPost sends.
MediaTypes == {NoType, "video", "none"}

MediaInit ==
    /\ AppInit
    /\ storage = NoItem
    /\ ~storageFull
    /\ media \in {Media(url, type) : url \in Urls, type \in MediaTypes}

MediaNext == Render

MediaSpec == MediaInit /\ [][MediaNext]_vars

(* ------------------------------- claims ------------------------------- *)

\* The step runs the continuation of the settled fetch m.
Handles(m) ==
    /\ m \in BagToSet(net)
    /\ m.stage = "resp"
    /\ CopiesIn(m, net') < CopiesIn(m, net)
    /\ phase' = "mounted"

\* No fetch of the client is in flight and its feed is on screen.
Quiescent == FeedShown /\ net = EmptyBag

IsToggleOf(p, m) == m.kind = "like" /\ m.post = p

\* The number of toggle requests for p in flight.
TogglesInFlight(p) ==
    BagCardinality([m \in {x \in BagToSet(net) : IsToggleOf(p, x)} |-> net[m]])

\* The step sent a toggle request for p or settled one at the backend.
ToggleAdvances(p) ==
    \E m \in BagToSet(net') : IsToggleOf(p, m) /\ CopiesIn(m, net') > CopiesIn(m, net)

\* C1: toggleLike is update-after-success.  Within a session, a step in which
\* a toggle for p is sent or served changes neither the membership of p in
\* likedIds nor the posts; p enters likedIds only in the step that handles a
\* successful POST like for p, and leaves it only in the step that handles a
\* successful DELETE like for p.
C1_UpdateAfterSuccess ==
    [][ (phase = "mounted" /\ phase' = "mounted") =>
          \A p \in AllIds :
             /\ ToggleAdvances(p) =>
                  /\ SetHas(likedIds', p) = SetHas(likedIds, p)
                  /\ posts' = posts
             /\ (~SetHas(likedIds, p) /\ SetHas(likedIds', p)) =>
                  \E m \in Settled("like") :
                     m.post = p /\ ~m.flag /\ Ok(m) /\ Handles(m)
             /\ (SetHas(likedIds, p) /\ ~SetHas(likedIds', p)) =>
                  \E m \in Settled("like") :
                     m.post = p /\ m.flag /\ Ok(m) /\ Handles(m) ]_vars

\* A post has been liked and unliked with success in this run.
C1_Witness ==
    \E p \in AllIds : stats.postOk[p] > 0 /\ stats.deleteOk[p] > 0

Mutating == {"create", "like", "comment"}

\* C2 as stated: the step that handles the failed request of a mutating
\* operation (the fetch rejected, or a response that is not 2xx) leaves
\* posts, likedIds and comments as they were and raises a notice that is the
\* server's error message when there is one and the HTTP-status message
\* otherwise.
C2_FailureNoticeAsStated ==
    [][ \A m \in BagToSet(net) :
          (m.kind \in Mutating /\ ~Ok(m) /\ Handles(m)) =>
             /\ UNCHANGED <<posts, likedIds, comments>>
             /\ last'.notice = (IF m.error # "" THEN m.error
                                ELSE HttpMessage(m.status)) ]_vars

\* C2 amended: the same, with the notice of a rejected fetch being the
\* message of the rejection itself (there is no response and no status).
C2_FailureNotice ==
    [][ \A m \in BagToSet(net) :
          (m.kind \in Mutating /\ ~Ok(m) /\ Handles(m)) =>
             /\ UNCHANGED <<posts, likedIds, comments>>
             /\ last'.notice = (IF m.status = 0 THEN FetchRejected
                                ELSE IF m.error # "" THEN m.error
                                ELSE HttpMessage(m.status)) ]_vars

\* An unlike was refused by the backend and its message shown.
C2_Witness ==
    last.op = "toggleLike" /\ ~last.ok /\ last.notice = Conflict

\* C3: each post has at most one like/unlike request outstanding.
C3_OneToggleInFlight ==
    \A p \in AllIds : TogglesInFlight(p) <= 1

\* C4: when no request of the client is in flight, the commentCount it holds
\* for each post is the backend's.
C4_CommentCountsConverge ==
    Quiescent =>
       \A i \in 1..Len(posts) :
          posts[i].commentCount = PostOf(sPosts, posts[i].id).commentCount

\* C5: when no request of the client is in flight, the likeCount it holds for
\* each post is the backend's.
C5_LikeCountsConverge ==
    Quiescent =>
       \A i \in 1..Len(posts) :
          posts[i].likeCount = PostOf(sPosts, posts[i].id).likeCount

\* C6: starting from an empty liked set, the DELETE like requests issued for
\* a post never outnumber the client's successful POST like requests for it.
C6_UnlikeFollowsLike ==
    stats.fromEmpty =>
       \A p \in AllIds : stats.deleteIssued[p] <= stats.postOk[p]

\* C7: the step that handles a successful addComment on post p adds exactly 1
\* to the client's commentCount of p, appends the returned comment to the end
\* of p's local list, sends no request, and leaves the commentCount of every
\* other post and the length of the feed as they were.
C7_CommentAdded ==
    [][ \A m \in BagToSet(net) :
          (m.kind = "comment" /\ Ok(m) /\ Handles(m)) =>
             /\ Len(posts') = Len(posts)
             /\ \A i \in 1..Len(posts) :
                   /\ posts'[i].id = posts[i].id
                   /\ posts'[i].commentCount =
                         posts[i].commentCount + (IF posts[i].id = m.post THEN 1 ELSE 0)
             /\ m.post \in PostIds(posts)
             /\ comments'[m.post] = Append(comments[m.post], m.data[1])
             /\ \A q \in AllIds \ {m.post} : comments'[q] = comments[q]
             /\ net' = Consume(m) ]_vars

\* A comment was just added with success while the feed holds another post.
C7_Witness ==
    /\ last.op = "addComment" /\ last.ok
    /\ Len(posts) >= 2
    /\ Len(comments[last.post]) >= 1

\* C8: an open panel shows the number of comments the backend holds for the
\* post (no request being in flight), a closed one the cached commentCount.
C8_VisibleCountAuthoritative ==
    \A p \in PostIds(posts) :
       Quiescent =>
          visibleCommentCount(p) =
             (IF showComments[p] THEN Len(sComments[p])
                                 ELSE PostOf(posts, p).commentCount)

\* What the text stored under 'likedIds' deserialises to.
Stored == JsonParse(storage.text)

\* C9: when writes to localStorage succeed, the stored text deserialises to
\* an array whose elements are exactly likedIds, loading it gives likedIds,
\* and a page load keeps likedIds.
C9_RoundTrip ==
    /\ [] ((phase = "mounted" /\ ~storageFull) =>
             /\ storage.has
             /\ ~Stored.thrown
             /\ Stored.val.t = "array"
             /\ Range(Stored.val.v) = Range(likedIds)
             /\ LoadLikedIds(storage) = likedIds)
    /\ [][ (phase = "mounted" /\ phase' = "rendered" /\ ~storageFull) =>
              likedIds' = likedIds ]_vars

\* A new session has loaded a set that holds a post liked in an earlier one.
C9_Witness ==
    /\ phase = "rendered"
    /\ ~storageFull
    /\ \E p \in AllIds : stats.postOk[p] > 0 /\ SetHas(likedIds, p)

\* The stored text is no array: it does not parse, or parses to something else.
Corrupted(st) ==
    /\ st.has
    /\ st.text # <<>>
    /\ JsonParse(st.text).thrown \/ JsonParse(st.text).val.t # "array"

\* C10: loaded from a corrupted item, likedIds is the empty set.
C10_LoadFailsSoft ==
    (phase = "rendered" /\ Corrupted(storage)) => likedIds = <<>>

\* C11: the step that handles the response to the initial GET /posts ends the
\* loading state and sets the feed to the returned array for a 200 whose body
\* is an array or {posts: [...]}, and to the empty list for a rejected fetch,
\* a status that is not 2xx, or any other body.
C11_FeedSettles ==
    [][ \A m \in BagToSet(net) :
          (m.kind = "list" /\ Handles(m)) =>
             /\ loading' = FALSE
             /\ posts' = (IF Ok(m) /\ m.shape \in {"array", "envelope"}
                          THEN m.data ELSE <<>>) ]_vars

\* C12: a URL without an explicit type is rendered by the rule table, first
\* match wins: nothing for the empty URL; for a URL containing youtube.com or
\* youtu.be the embed of its id, or nothing when it has none; a video for the
\* video extensions; an image for the image extensions; a generic external
\* link for every other URL.
C12_RuleTable ==
    (media.type = NoType /\ media.element # NotRendered) =>
        media.element =
            IF media.url = <<>> THEN Nothing
            ELSE IF includes(media.url, YoutubeCom) \/ includes(media.url, YoutuBe)
            THEN IF getYouTubeId(media.url) # NoId
                 THEN Element("iframe", Embed \o getYouTubeId(media.url))
                 ELSE Nothing
            ELSE IF TestExtension(media.url, VideoExtensions)
            THEN Element("video", media.url)
            ELSE IF TestExtension(media.url, ImageExtensions)
            THEN Element("img", media.url)
            ELSE Element("a", media.url)

\* C13: the feed shown is newest first: in every state where the feed is
\* shown, the posts list is ordered by createdAt descending.
C13_NewestFirst ==
    FeedShown =>
        \A i, j \in 1..Len(posts) :
            i < j => posts[i].createdAt >= posts[j].createdAt

\* The likes (flag FALSE) or unlikes (flag TRUE) of p the backend applied
\* whose responses the client has not handled yet.
AppliedInNet(p, flag) ==
    BagCardinality([m \in {x \in BagToSet(net) :
                              /\ IsToggleOf(p, x)
                              /\ x.stage = "resp"
                              /\ Ok(x)
                              /\ x.flag = flag} |-> net[m]])

\* The likeCount p was created with.
InitialLikes(p) ==
    IF \E n \in 1..InitPosts : NumText(n) = p
    THEN InitialPost(CHOOSE n \in 1..InitPosts : NumText(n) = p).likeCount
    ELSE 0

\* C14: no lost updates on the like counter: the likeCount of every post at
\* the backend is its initial likeCount plus the number of like requests the
\* backend applied to it, minus the number of unlike requests it applied,
\* whether the requests were in flight together or not.
C14_NoLostLikes ==
    \A i \in 1..Len(sPosts) :
        LET p == sPosts[i].id
        IN  sPosts[i].likeCount =
                InitialLikes(p)
                + stats.postOk[p] + AppliedInNet(p, FALSE)
                - stats.deleteOk[p] - AppliedInNet(p, TRUE)

\* Two like requests for post 1 were in flight together and both are applied.
C14_Witness ==
    /\ AppliedInNet("1", FALSE) = MaxInFlight
    /\ PostOf(sPosts, "1").likeCount = InitialLikes("1") + MaxInFlight

\* The backend answers m in this step.
Serves(m) ==
    /\ m \in BagToSet(net)
    /\ m.stage = "req"
    /\ CopiesIn(m, net') < CopiesIn(m, net)

\* The responses that are in flight after the step and were not before.
NewResponses ==
    {x \in BagToSet(net') : x.stage = "resp" /\ CopiesIn(x, net') > CopiesIn(x, net)}

\* C15: likeCount is never negative, at the backend and in the feed shown; an
\* unlike of a post whose likeCount is 0 is never applied: the backend's answer
\* to it is not a success, and when it is the 409 the posts of the backend are
\* left as they were, likeCount 0; and the step in which the client handles a
\* 409 to a toggle leaves likedIds and the posts of the client unchanged.
C15_LikeFloor ==
    /\ [](/\ \A i \in 1..Len(sPosts) : sPosts[i].likeCount >= 0
          /\ FeedShown => \A i \in 1..Len(posts) : posts[i].likeCount >= 0)
    /\ [][ \A m \in BagToSet(net) :
             /\ (/\ Serves(m)
                 /\ m.kind = "like" /\ m.flag
                 /\ Exists(m.post)
                 /\ PostOf(sPosts, m.post).likeCount = 0) =>
                    /\ \A x \in NewResponses : ~Ok(x)
                    /\ (\E x \in NewResponses : x.error = Conflict) =>
                          (\A x \in NewResponses : x.status = 409) /\ sPosts' = sPosts
                    /\ PostOf(sPosts', m.post).likeCount = 0
             /\ (Handles(m) /\ m.kind = "like" /\ m.status = 409) =>
                    UNCHANGED <<likedIds, posts>> ]_vars

\* The client handled the 409 to an unlike of a post whose likeCount is 0 and
\* still holds the post as liked.
C15_Witness ==
    /\ last.op = "toggleLike"
    /\ last.notice = Conflict
    /\ Exists(last.post)
    /\ PostOf(sPosts, last.post).likeCount = 0
    /\ SetHas(likedIds, last.post)

\* C16: addComment is atomic with the counter: in every state the
\* commentCount of every post at the backend is the number of comments
\* listComments returns for it.
C16_CommentCountMatches ==
    \A i \in 1..Len(sPosts) :
        sPosts[i].commentCount = Len(sComments[sPosts[i].id])

\* The backend added a comment to post 1, which had one.
C16_Witness ==
    /\ Len(sComments["1"]) > InitialPost(1).commentCount
    /\ PostOf(sPosts, "1").commentCount = Len(sComments["1"])

\* C17: starting from an empty liked set, in every quiescent state and for
\* every post, the number of likes of the post that succeeded minus the number
\* of its unlikes that succeeded is 1 when the post is in likedIds and 0 when
\* it is not.
C17_LikedIffNetOneLike ==
    (stats.fromEmpty /\ Quiescent) =>
        \A p \in AllIds :
            stats.postOk[p] - stats.deleteOk[p] =
                IF SetHas(likedIds, p) THEN 1 ELSE 0

\* C18: the local comment list of a post never holds the same comment twice:
\* in every state the ids of the comments in it are pairwise distinct.
C18_CommentsDistinct ==
    \A p \in AllIds :
        \A i, j \in 1..Len(comments[p]) :
            i # j => comments[p][i].id # comments[p][j].id

\* The posts list keeps its length, its order and its ids, and every post
\* other than p is left as it was.
OnlyPostChanges(p) ==
    /\ Len(posts') = Len(posts)
    /\ \A i \in 1..Len(posts) :
          /\ posts'[i].id = posts[i].id
          /\ posts[i].id # p => posts'[i] = posts[i]

\* C19: the step that applies the result of a successful toggleLike(p), and
\* the step that applies onCommentAdded(p) after a successful addComment,
\* leave the length and order of posts, the set of post ids and every post
\* other than p unchanged; the onCommentAdded step also leaves likedIds and
\* the likeCount of p unchanged.
C19_OnlyTargetPostChanges ==
    [][ \A m \in BagToSet(net) :
          (Handles(m) /\ ~Failed(m)) =>
             /\ m.kind = "like" => OnlyPostChanges(m.post)
             /\ m.kind = "comment" =>
                   /\ OnlyPostChanges(m.post)
                   /\ likedIds' = likedIds
                   /\ \A i \in 1..Len(posts) :
                         posts'[i].likeCount = posts[i].likeCount ]_vars

\* A successful toggle was applied to a feed of several posts.
C19_Witness ==
    /\ last.op = "toggleLike"
    /\ last.ok
    /\ FeedShown
    /\ Len(posts) > InitPosts

=============================================================================
